---- MODULE Spec2Model ----
(***************************************************************************)
(* Model of tracer-test: the periodic probe loop of main(), makeRequest,   *)
(* httpclient.Client.Get, instrumentedTransport.RoundTrip and the          *)
(* health.Server status state.                                             *)
(*                                                                         *)
(* Spans are kept in the sequence `spans` (a span's id is its index), the  *)
(* order of span starts/ends and of the body close in `events`, emitted    *)
(* log records in `logs`.                                                  *)
(***************************************************************************)
EXTENDS Integers, Sequences, FiniteSets, TLC

VARIABLES
    pc,            \* position of the main goroutine in the request loop
    url,           \* *targetURL, fixed at start-up
    cancelled,     \* ctx.Done() is closed
    tickerC,       \* number of values buffered in ticker.C
    elapsed,       \* timer intervals elapsed since time.NewTicker
    dropped,       \* firings the ticker discarded because ticker.C was full
    tickSpan,      \* firings that elapsed while the current tick was running
    requestCount,  \* main's local requestCount
    respStatus,    \* resp.StatusCode of the tick in flight (0: no response)
    err,           \* error value travelling up the call chain ("nil" or a kind)
    outcome,       \* classification of the last completed tick
    bodyCloses,    \* calls of resp.Body.Close() in the tick in flight
    baseCalls,     \* calls of t.base.RoundTrip in the tick in flight
    cur,           \* span handles of the tick in flight
    spans,         \* every span started so far
    events,        \* order of span starts, span ends and body closes
    logs,          \* records written to the log sink
    ready,         \* health.Server.ready   (int32)
    requests,      \* health.Server.requests (int64)
    callsDone,     \* concurrent callers: IncrementRequests calls made by each
    hpc,           \* status server: position of each request handler
    hreq,          \* status server: value a handler loaded from s.requests
    hresp,         \* status server: last response each handler wrote
    setReadyLog,   \* arguments of the SetReady calls made so far, in order
    srv,           \* health.Server.server: state of the listener
    word,          \* a health.Server.requests word, as 16-bit limbs
    wordCalls,     \* IncrementRequests calls applied to word
    reported,      \* values /metrics printed for word, oldest first
    seen,          \* history of ready against the counter a handler loaded
    endpoint,      \* tracer.Config.Endpoint, as a sequence of text pieces
    insecure,      \* what shouldUseInsecure returned in the last New call
    globalTP,      \* the tracer provider registered with the otel package
    tracers,       \* the Tracers that New has returned
    tspans         \* spans started through those Tracers

vars == <<pc, url, cancelled, tickerC, elapsed, dropped, tickSpan, requestCount,
          respStatus, err, outcome, bodyCloses, baseCalls, cur, spans, events,
          logs, ready, requests, callsDone, hpc, hreq, hresp, setReadyLog,
          srv, word, wordCalls, reported, seen, endpoint, insecure, globalTP,
          tracers, tspans>>

schedVars == <<pc, url, cancelled, tickerC, elapsed, dropped, tickSpan,
               requestCount, respStatus, err, outcome, bodyCloses, baseCalls,
               cur, spans, events, logs>>

concVars == <<callsDone, hpc, hreq, hresp, setReadyLog>>

ctrVars == <<word, wordCalls, reported>>

tracerVars == <<endpoint, insecure, globalTP, tracers, tspans>>

-----------------------------------------------------------------------------
(* Bounds *)

MaxIntervals == 3      \* timer intervals the model lets elapse
MaxTicks == 2          \* ticks the model lets the loop start
NumCallers == 2        \* concurrent callers of IncrementRequests
CallsPerCaller == 1    \* calls each concurrent caller makes
NumHandlers == 1       \* requests the status server handles at a time
MaxSetReadyCalls == 2  \* SetReady calls the model lets happen
MaxWordCalls == 3      \* increments applied to a counter word
MaxReports == 2        \* values of a counter word /metrics prints
MaxPieces == 2         \* text pieces an endpoint is put together from
MaxNewCalls == 2       \* calls of tracer.New in one process
MaxTracerSpans == 2    \* spans started through the Tracers New returned

(* Program constants *)

TickerCap == 1         \* capacity of the channel of a time.Ticker
ErrorThreshold == 400  \* "resp.StatusCode >= 400"

TargetURLs == {"http://target", "invalid-url", "://bad"}
StatusCodes == {200, 400, 500}

\* the span handles of a tick and the header fields of its outbound request
NoHandles == [cycle |-> 0, get |-> 0, transport |-> 0, dns |-> 0, tcp |-> 0,
              headers |-> {}]

-----------------------------------------------------------------------------
(* The trace sink: tracer.Start, span.SetStatus, span.RecordError, span.End *)

TracerStart(sp, parent, name, count) ==
    Append(sp, [name   |-> name,
                parent |-> parent,
                trace  |-> IF parent = 0 THEN Len(sp) + 1 ELSE sp[parent].trace,
                count  |-> count,
                status |-> "Unset",
                desc   |-> << >>,
                errors |-> 0,
                attrs  |-> {},
                ends   |-> 0])

\* span.SetStatus(code, description): ignored on an ended span and after Ok;
\* the description is kept for Error only
SetStatusMsg(sp, id, code, desc) ==
    IF sp[id].ends > 0 \/ sp[id].status = "Ok"
    THEN sp
    ELSE [sp EXCEPT ![id].status = code,
                    ![id].desc = IF code = "Error" THEN desc ELSE << >>]

\* err.Error(), the text of an error value
ErrorText == <<"error">>

\* span.SetStatus(codes.Error, err.Error()) and span.SetStatus(codes.Ok, "")
SetStatus(sp, id, code) == SetStatusMsg(sp, id, code, ErrorText)

\* fmt.Sprintf("HTTP %d", resp.StatusCode)
StatusMessage(code) == <<"HTTP", code>>

RecordError(sp, id) ==
    IF sp[id].ends > 0 THEN sp ELSE [sp EXCEPT ![id].errors = @ + 1]

SetAttributes(sp, id, names) ==
    IF sp[id].ends > 0 THEN sp ELSE [sp EXCEPT ![id].attrs = @ \cup names]

SpanEnd(sp, id) == [sp EXCEPT ![id].ends = @ + 1]

Started(id) == <<"start", id>>
Ended(id) == <<"end", id>>
BodyClosed(id) == <<"body.close", id>>
Logged(k) == <<"log", k>>    \* the scheduler writes the k-th record of the sink

(* The log sink and logger.WithTraceContext *)

BaseLogger == [trace_id |-> 0, span_id |-> 0]

\* (variant: only the trace id is added)
WithTraceContext_TraceOnly(l, traceID, spanID) ==
    [l EXCEPT !.trace_id = traceID]

\* l.Logger.With(...): a new logger with the two fields set; l is a value
\* and stays what it was
WithTraceContext(l, traceID, spanID) ==
    [l EXCEPT !.trace_id = traceID, !.span_id = spanID]

LogRecord(l, component, level, msg) ==
    [level |-> level, msg |-> msg, component |-> component,
     trace_id |-> l.trace_id, span_id |-> l.span_id]

-----------------------------------------------------------------------------
(* health.Server status state *)

\* (variant: the counter is stored, not added to)
AtomicAddInt64_Store(v, d) == d

\* atomic.AddInt64: one indivisible read-modify-write (the values of the
\* model stay far below the top of the int64 range)
AtomicAddInt64(v, d) == v + d

IncrementRequests(r) == AtomicAddInt64(r, 1)

\* (variant: the status server counts the requests it serves itself)
RequestsAfterHandler_Counted(r) == r + 1

\* healthHandler, readyHandler, metricsHandler: s.requests after the handler;
\* the handlers only load the fields
RequestsAfterHandler(r) == r

(* The int64 word of s.requests at full width: four limbs of 16 bits, most
   significant first, in two's complement *)

LimbBase == 65536
Int64Zero == <<0, 0, 0, 0>>
Int64Max == <<32767, 65535, 65535, 65535>>

RECURSIVE AddLimbs(_, _, _)
AddLimbs(w, i, carry) ==
    IF i = 0 THEN w
    ELSE LET t == w[i] + carry
         IN  AddLimbs([w EXCEPT ![i] = t % LimbBase], i - 1, t \div LimbBase)

\* atomic.AddInt64 on the full word: the carry out of the top limb is lost
AtomicAddInt64Word(w, d) == AddLimbs(w, 4, d)

IncrementRequestsWord(w) == AtomicAddInt64Word(w, 1)

\* the sign bit of the int64
Int64Negative(w) == w[1] >= LimbBase \div 2

\* -w in two's complement: every limb complemented, then one added
Int64Negate(w) ==
    AddLimbs([i \in 1..4 |-> (LimbBase - 1) - w[i]], 4, 1)

\* metricsHandler: "http_requests_total %d" of the int64 loaded, a decimal
\* number with a minus sign when the sign bit is set
MetricsRequestsTotal(w) ==
    [negative  |-> Int64Negative(w),
     magnitude |-> IF Int64Negative(w) THEN Int64Negate(w) ELSE w]

\* (variant: SetReady(false) stores 1 as well)
SetReadyValue_AlwaysOne(b) == 1

\* SetReady: the value stored for the argument
SetReadyValue(b) == IF b THEN 1 ELSE 0

\* (variant: the value is added to the flag, not stored)
AtomicStoreInt32_Add(old, v) == old + v

\* atomic.StoreInt32: the old value is overwritten
AtomicStoreInt32(old, v) == v

\* Server.Start, run by the goroutine main starts right after SetReady(true):
\* ListenAndServe binds the port and serves (the time the goroutine takes to
\* bind, and a failed bind, which main only logs, are left out)
ServerStart(s) == IF s = "new" THEN "listening" ELSE s

\* Server.Stop: s.server.Shutdown(ctx) closes the listener and waits for the
\* responses in flight until ctx is done
ServerStop(s) == IF s = "listening" THEN "stopped" ELSE s

\* main has no call of healthServer.Stop: when main returns the listener is
\* lost with the process, whatever it was doing
MainReturns(s) == "exited"

-----------------------------------------------------------------------------
(* The tracer package: endpoint texts, shouldUseInsecure, New *)

\* texts are sequences of characters; an endpoint is a sequence of pieces
Pieces == {"https://", "http://", "HTTP://", "localhost", "127.0.0.1",
           "collector", ":4318"}

PieceText(p) ==
    CASE p = "https://"  -> <<"h", "t", "t", "p", "s", ":", "/", "/">>
      [] p = "http://"   -> <<"h", "t", "t", "p", ":", "/", "/">>
      [] p = "HTTP://"   -> <<"H", "T", "T", "P", ":", "/", "/">>
      [] p = "localhost" -> <<"l", "o", "c", "a", "l", "h", "o", "s", "t">>
      [] p = "127.0.0.1" -> <<"1", "2", "7", ".", "0", ".", "0", ".", "1">>
      [] p = "collector" -> <<"c", "o", "l", "l", "e", "c", "t", "o", "r">>
      [] p = ":4318"     -> <<":", "4", "3", "1", "8">>

RECURSIVE EndpointText(_)
EndpointText(e) ==
    IF e = << >> THEN << >> ELSE PieceText(Head(e)) \o EndpointText(Tail(e))

\* the default of the flag -otlp-endpoint
DefaultEndpoint == <<"http://", "localhost", ":4318">>

\* strings.HasPrefix
HasPrefix(t, prefix) ==
    Len(t) >= Len(prefix) /\ SubSeq(t, 1, Len(prefix)) = prefix

\* strings.Contains
Contains(t, sub) ==
    \E i \in 1..(Len(t) - Len(sub) + 1) : SubSeq(t, i, i + Len(sub) - 1) = sub

\* (variant: the host name is looked at before the scheme)
shouldUseInsecure_HostFirst(t) ==
    IF Contains(t, PieceText("localhost")) \/ Contains(t, PieceText("127.0.0.1"))
    THEN TRUE
    ELSE IF HasPrefix(t, PieceText("https://")) THEN FALSE
    ELSE HasPrefix(t, PieceText("http://"))

shouldUseInsecure(t) ==
    IF HasPrefix(t, PieceText("https://")) THEN FALSE
    ELSE IF HasPrefix(t, PieceText("http://")) THEN TRUE
    ELSE IF Contains(t, PieceText("localhost"))
              \/ Contains(t, PieceText("127.0.0.1"))
    THEN TRUE
    ELSE FALSE

\* New with Disabled: otel.Tracer("noop"), a tracer of whatever provider is
\* registered with the otel package; otherwise tp.Tracer(...), a tracer of
\* the SDK provider New has just built
NewTracerValue(disabled) ==
    [disabled |-> disabled,
     provider |-> IF disabled THEN "global" ELSE "sdk"]

\* the provider a tracer's spans go to: a tracer of the otel package
\* delegates to the registered provider, the default one drops every span
SpanProvider(t, g) == IF t.provider = "global" THEN g ELSE t.provider

-----------------------------------------------------------------------------
(* History of the two fields of health.Server, kept where seen.on is set
   (SpecMetrics): for a /metrics handler between its two loads, seen.at[h]
   holds the values of ready held together with the counter value it loaded,
   from its load on; seen.torn holds the handlers whose last /metrics response
   paired that counter value with a flag value not among them *)

SeenOff == [on |-> FALSE, at |-> [h \in 1..NumHandlers |-> {}], torn |-> {}]

SeenOn == [SeenOff EXCEPT !.on = TRUE]

\* the /metrics handlers between their two loads whose counter value is
\* still the current one
Loading == {h \in 1..NumHandlers : hpc[h] = "metrics" /\ hreq[h] = requests}

\* after atomic.StoreInt32(&s.ready, v)
SeenAfterStore(s, v, loading) ==
    IF s.on
    THEN [s EXCEPT !.at = [h \in 1..NumHandlers |->
                              IF h \in loading THEN s.at[h] \cup {v}
                              ELSE s.at[h]]]
    ELSE s

\* at atomic.LoadInt64(&s.requests) in metricsHandler, v the flag just then
SeenAtLoad(s, h, v) ==
    IF s.on THEN [s EXCEPT !.at[h] = {v}, !.torn = @ \ {h}] ELSE s

\* at atomic.LoadInt32(&s.ready) in metricsHandler, v the value loaded
SeenAtReport(s, h, v) ==
    IF s.on
    THEN [s EXCEPT !.at[h] = {},
                   !.torn = IF v \in s.at[h] THEN @ ELSE @ \cup {h}]
    ELSE s

-----------------------------------------------------------------------------
(* Outcomes of the external collaborators *)

\* http.NewRequestWithContext fails when the URL does not parse
NewRequestFails(u) == u = "://bad"

\* net.LookupIP(host): TRUE is a successful lookup ("invalid-url" has no host).
\* The call takes no context: the lookup runs under context.Background() and
\* ends as it would have ended without the cancellation.
LookupOutcomes(u) == IF u = "invalid-url" THEN {FALSE} ELSE {TRUE, FALSE}

\* (variant: a round trip whose context is done never returns)
BaseRoundTripOutcomes_HangsOnCancel(u, c) ==
    IF c THEN {} ELSE IF u = "invalid-url" THEN {0} ELSE {0} \cup StatusCodes

\* t.base.RoundTrip(req): 0 is an error, otherwise the response status
\* ("invalid-url" has no scheme, the base transport rejects it)
\* The request carries ctx: a round trip that ends once ctx is done ends
\* with the context's error.
BaseRoundTripOutcomes(u, c) ==
    IF u = "invalid-url" \/ c THEN {0} ELSE {0} \cup StatusCodes

\* io.ReadAll(resp.Body): TRUE is a complete read; the body belongs to the
\* request made with ctx, a read that ends once ctx is done ends with an error
ReadAllOutcomes(c) == IF c THEN {FALSE} ELSE {TRUE, FALSE}

-----------------------------------------------------------------------------
(* Decisions taken by the code *)

\* (variant: a tick may start while another one is running)
AtSelect_Anywhere(p) == p \notin {"start", "stopped"}

\* main: the for/select statement is the only place a tick starts or the loop ends
AtSelect(p) == p = "select"

\* (variant: the loop returns after a failed tick)
LoopNext_ExitOnFailure(o) == IF o = "success" THEN "select" ELSE "stopped"

\* main: where the loop goes once makeRequest and IncrementRequests returned
LoopNext(o) == "select"

\* (variant: only successful ticks are counted)
CounterAfterTick_SuccessOnly(r, o) == IF o = "success" THEN r + 1 ELSE r

\* main: makeRequest(...); healthServer.IncrementRequests()
CounterAfterTick(r, o) == IncrementRequests(r)

\* (variant: firings queue up without limit)
TickerSend_Queued(c) == c + 1

\* time.Ticker: a firing is buffered when ticker.C has room, otherwise discarded
TickerSend(c) == IF c < TickerCap THEN c + 1 ELSE c

\* (variant: the transport compares with > instead of >=)
TransportStatus_Above(code) == IF code > ErrorThreshold THEN "Error" ELSE "Ok"

\* RoundTrip: span status from resp.StatusCode
TransportStatus(code) == IF code >= ErrorThreshold THEN "Error" ELSE "Ok"

\* Get: span status and log level from resp.StatusCode
GetStatus(code) == IF code >= ErrorThreshold THEN "Error" ELSE "Ok"
GetLogLevel(code) == IF code >= ErrorThreshold THEN "warn" ELSE "info"

\* (variant: the scheduler logs every response at info)
CycleLogLevel_Info(code) == "info"

\* (variant: the comparison is > instead of >=)
CycleStatus_Above(code) == IF code > ErrorThreshold THEN "Error" ELSE "Ok"

\* (variant: a tick that got a response is Ok whatever the status code)
CycleStatus_AlwaysOk(code) == "Ok"

\* makeRequest: span status and log level from resp.StatusCode
CycleStatus(code) == IF code >= ErrorThreshold THEN "Error" ELSE "Ok"
CycleLogLevel(code) == IF code >= ErrorThreshold THEN "warn" ELSE "info"
CycleLogMsg(code) ==
    IF code >= ErrorThreshold THEN "HTTP request returned error status"
    ELSE "HTTP request completed successfully"

\* (variants: a missing span.End(), the transport span ended before tcpSpan)
RoundTripEnds_ParentFirst(tcp, tr) == <<tr, tcp>>
GetEnds_Missing(g) == << >>
MakeRequestEnds_Missing(c) == << >>

\* the spans each function ends when it returns, in the order it ends them
LookupEnds(d) == <<d>>
RoundTripEnds(tcp, tr) == <<tcp, tr>>
GetEnds(g) == <<g>>
MakeRequestEnds(c) == <<c>>

\* The header fields of the request handed to t.base.RoundTrip: Get builds
\* it with http.NewRequestWithContext(ctx, "GET", url, nil) and sets no
\* field, RoundTrip only does req.WithContext(ctx), and no propagator is
\* called anywhere; the fields are the ones net/http adds on its own.
OutboundHeaders(traceID, spanID) ==
    {<<"User-Agent", "Go-http-client/1.1">>, <<"Accept-Encoding", "gzip">>}

\* (variant: a failed lookup is recorded on the transport span as well)
LookupFailureMarks_Transport(d, t) == <<d, t>>

\* (variant: a failed lookup is recorded on no span)
LookupFailureMarks_None(d, t) == << >>

\* RoundTrip: the spans a failed net.LookupIP is recorded on
LookupFailureMarks(d, t) == <<d>>

\* (variant: Get goes on to httpClient.Do although the request was not built)
AfterNewRequest_NoReturn(failed) == "RoundTrip"

\* Get: "if err != nil { ...; return nil, ... }" after NewRequestWithContext
AfterNewRequest(failed) == IF failed THEN "get_returned" ELSE "RoundTrip"

\* (variant: RoundTrip replaces the error of the base round trip)
RoundTripReturn_Replaced(e) == IF e = "nil" THEN "nil" ELSE "roundtrip"

\* RoundTrip: "return resp, err", the error of t.base.RoundTrip as it is
RoundTripReturn(e) == e

\* (variant: tcp.connect is started in the context of the dns.resolve span)
ConnectSpanParent_Dns(t, d) == d

\* RoundTrip: "_, tcpSpan := t.tracer.Start(ctx, ...)" with the ctx of the
\* http.transport span; the context tracer.Start returned for dns.resolve
\* was discarded
ConnectSpanParent(t, d) == t

\* (variant: the span carries the counter as it was before requestCount++)
SpanTickNumber_Before(n) == n - 1

\* main passes requestCount, already incremented, to makeRequest, which sets
\* it as the attribute request.count of the root span
SpanTickNumber(n) == n

\* (variant: the ids are taken from the http.get span)
CorrelationSpan_Child(c, g) == g

\* makeRequest: the ids given to log.WithTraceContext are those of "span",
\* the request.cycle span makeRequest started itself
CorrelationSpan(c, g) == c

\* (variant: a failed request is logged as a warning)
GetFailureLevel_Warn == "warn"

\* Get: c.logger.Error("HTTP request failed", ...)
GetFailureLevel == "error"

\* (variant: Get turns a status >= 400 into an error)
GetReturn_StatusError(e, code) ==
    IF e = "nil" /\ code >= ErrorThreshold THEN "status" ELSE e

\* Get: the error returned; a failure of httpClient.Do is wrapped with %w
\* and keeps its kind, a response of any status is returned with a nil error
GetReturn(e, code) == e

\* (variant: the duration is set on the root span before the body is read)
ReadFailureAttrs_Duration == {"request.cycle.duration_ms"}

\* makeRequest: the attributes set on the root span on the path that returns
\* after a failed io.ReadAll; span.SetAttributes comes after that return
ReadFailureAttrs == {}

\* (variant: a failed tick takes the service out of rotation)
ReadyAfterTick_FailureClears(rdy, o) == IF o = "success" THEN rdy ELSE 0

\* main: the loop body calls makeRequest and IncrementRequests, and neither
\* they nor anything they call calls SetReady
ReadyAfterTick(rdy, o) == rdy

\* (variant: the body is closed only after a complete read)
BodyCloseCalls_OnSuccess(ok) == IF ok THEN 1 ELSE 0

\* makeRequest: "defer resp.Body.Close()" runs once, however ReadAll ended
BodyCloseCalls(ok) == 1

RECURSIVE MarkErrorAll(_, _)
MarkErrorAll(sp, ids) ==
    IF ids = << >> THEN sp
    ELSE MarkErrorAll(SetStatus(RecordError(sp, Head(ids)), Head(ids), "Error"),
                      Tail(ids))

RECURSIVE EndAll(_, _)
EndAll(sp, ids) ==
    IF ids = << >> THEN sp ELSE EndAll(SpanEnd(sp, Head(ids)), Tail(ids))

RECURSIVE EndEvents(_)
EndEvents(ids) ==
    IF ids = << >> THEN << >> ELSE <<Ended(Head(ids))>> \o EndEvents(Tail(ids))

InFlight == pc \notin {"start", "select", "stopped"}

-----------------------------------------------------------------------------
(* The timer and the shutdown signal *)

\* one interval of the ticker elapses
TimerFire ==
    /\ pc \notin {"start", "stopped"}
    /\ elapsed < MaxIntervals
    /\ elapsed' = elapsed + 1
    /\ tickerC' = TickerSend(tickerC)
    /\ dropped' = IF TickerSend(tickerC) = tickerC THEN dropped + 1 ELSE dropped
    /\ tickSpan' = IF InFlight THEN tickSpan + 1 ELSE tickSpan
    /\ UNCHANGED <<pc, url, cancelled, requestCount, respStatus, err, outcome,
                   bodyCloses, baseCalls, cur, spans, events, logs, ready,
                   requests>>
    /\ UNCHANGED concVars
    /\ UNCHANGED srv
    /\ UNCHANGED ctrVars
    /\ UNCHANGED tracerVars
    /\ UNCHANGED seen

\* the signal goroutine: <-sigChan; cancel()
Cancel ==
    /\ pc # "start"
    /\ ~cancelled
    /\ cancelled' = TRUE
    /\ UNCHANGED <<pc, url, tickerC, elapsed, dropped, tickSpan, requestCount,
                   respStatus, err, outcome, bodyCloses, baseCalls, cur, spans,
                   events, logs, ready, requests>>
    /\ UNCHANGED concVars
    /\ UNCHANGED srv
    /\ UNCHANGED ctrVars
    /\ UNCHANGED tracerVars
    /\ UNCHANGED seen

-----------------------------------------------------------------------------
(* The request loop of main *)

\* healthServer.SetReady(true); go healthServer.Start();
\* ticker := time.NewTicker(*interval)
Startup ==
    /\ pc = "start"
    /\ ready' = AtomicStoreInt32(ready, SetReadyValue(TRUE))
    /\ setReadyLog' = Append(setReadyLog, TRUE)
    /\ srv' = ServerStart(srv)
    /\ pc' = "select"
    /\ UNCHANGED <<url, cancelled, tickerC, elapsed, dropped, tickSpan,
                   requestCount, respStatus, err, outcome, bodyCloses,
                   baseCalls, cur, spans, events, logs, requests>>
    /\ UNCHANGED <<callsDone, hpc, hreq, hresp>>
    /\ UNCHANGED ctrVars
    /\ UNCHANGED tracerVars
    /\ seen' = SeenAfterStore(seen, ready', Loading)

\* case <-ctx.Done(): return. main returns, its deferred calls run (cancel,
\* ticker.Stop, client.Close, t.Shutdown, log.Sync) and the process ends
\* with every goroutine and socket it had.
Shutdown ==
    /\ AtSelect(pc)
    /\ cancelled
    /\ pc' = "stopped"
    /\ srv' = MainReturns(srv)
    /\ UNCHANGED <<url, cancelled, tickerC, elapsed, dropped, tickSpan,
                   requestCount, respStatus, err, outcome, bodyCloses,
                   baseCalls, cur, spans, events, logs, ready, requests>>
    /\ UNCHANGED concVars
    /\ UNCHANGED ctrVars
    /\ UNCHANGED tracerVars
    /\ UNCHANGED seen

\* case <-ticker.C: requestCount++
TickFire ==
    /\ AtSelect(pc)
    /\ tickerC > 0
    /\ requestCount < MaxTicks
    /\ tickerC' = tickerC - 1
    /\ requestCount' = requestCount + 1
    /\ pc' = "makeRequest"
    /\ tickSpan' = 0
    /\ respStatus' = 0
    /\ err' = "nil"
    /\ bodyCloses' = 0
    /\ baseCalls' = 0
    /\ cur' = NoHandles
    /\ UNCHANGED <<url, cancelled, elapsed, dropped, outcome, spans, events,
                   logs, ready, requests>>
    /\ UNCHANGED concVars
    /\ UNCHANGED srv
    /\ UNCHANGED ctrVars
    /\ UNCHANGED tracerVars
    /\ UNCHANGED seen

\* makeRequest: the root span is started, client.Get is called
MakeRequestStart ==
    /\ pc = "makeRequest"
    /\ LET s1 == TracerStart(spans, 0, "request.cycle",
                             SpanTickNumber(requestCount))
           c  == Len(s1)
       IN  /\ spans' = s1
           /\ events' = Append(events, Started(c))
           /\ cur' = [NoHandles EXCEPT !.cycle = c]
    /\ pc' = "Get"
    /\ UNCHANGED <<url, cancelled, tickerC, elapsed, dropped, tickSpan,
                   requestCount, respStatus, err, outcome, bodyCloses,
                   baseCalls, logs, ready, requests>>
    /\ UNCHANGED concVars
    /\ UNCHANGED srv
    /\ UNCHANGED ctrVars
    /\ UNCHANGED tracerVars
    /\ UNCHANGED seen

\* Get: the http.get span is started, the request is built, httpClient.Do is
\* called (it calls the transport's RoundTrip)
GetStart ==
    /\ pc = "Get"
    /\ LET s1 == TracerStart(spans, cur.cycle, "http.get", 0)
           g  == Len(s1)
       IN  IF NewRequestFails(url)
           THEN /\ spans' = EndAll(SetStatus(RecordError(s1, g), g, "Error"),
                                   GetEnds(g))
                /\ events' = events \o <<Started(g)>> \o EndEvents(GetEnds(g))
                /\ err' = "construct"
                /\ cur' = [cur EXCEPT !.get = g]
           ELSE /\ spans' = s1
                /\ events' = Append(events, Started(g))
                /\ err' = "nil"
                /\ cur' = [cur EXCEPT !.get = g]
    /\ pc' = AfterNewRequest(NewRequestFails(url))
    /\ UNCHANGED <<url, cancelled, tickerC, elapsed, dropped, tickSpan,
                   requestCount, respStatus, outcome, bodyCloses, baseCalls,
                   logs, ready, requests>>
    /\ UNCHANGED concVars
    /\ UNCHANGED srv
    /\ UNCHANGED ctrVars
    /\ UNCHANGED tracerVars
    /\ UNCHANGED seen

\* RoundTrip: the transport span and dnsSpan are started, net.LookupIP is
\* called
RoundTripStart ==
    /\ pc = "RoundTrip"
    /\ LET s1 == TracerStart(spans, cur.get, "http.transport", 0)
           t  == Len(s1)
           s2 == TracerStart(s1, t, "dns.resolve", 0)
           d  == Len(s2)
       IN  /\ spans' = s2
           /\ events' = events \o <<Started(t), Started(d)>>
           /\ cur' = [cur EXCEPT !.transport = t, !.dns = d]
    /\ pc' = "dns_wait"
    /\ UNCHANGED <<url, cancelled, tickerC, elapsed, dropped, tickSpan,
                   requestCount, respStatus, err, outcome, bodyCloses,
                   baseCalls, logs, ready, requests>>
    /\ UNCHANGED concVars
    /\ UNCHANGED srv
    /\ UNCHANGED ctrVars
    /\ UNCHANGED tracerVars
    /\ UNCHANGED seen

\* RoundTrip: net.LookupIP returns, dnsSpan ends, tcpSpan starts
LookupDone(ok) ==
    /\ pc = "dns_wait"
    /\ LET d  == cur.dns
           t  == cur.transport
           s1 == IF ok
                 THEN SetStatus(SetAttributes(spans, d,
                          {"dns.addresses", "dns.duration_ms"}), d, "Ok")
                 ELSE MarkErrorAll(spans, LookupFailureMarks(d, cur.transport))
           s2 == EndAll(s1, LookupEnds(d))
           s3 == TracerStart(s2, ConnectSpanParent(cur.transport, d),
                             "tcp.connect", 0)
           k  == Len(s3)
       IN  /\ spans' = s3
           /\ events' = events \o EndEvents(LookupEnds(d)) \o <<Started(k)>>
           /\ cur' = [cur EXCEPT !.tcp = k,
                                 !.headers = OutboundHeaders(s3[t].trace, t)]
    /\ baseCalls' = baseCalls + 1
    /\ pc' = "rt_wait"
    /\ UNCHANGED <<url, cancelled, tickerC, elapsed, dropped, tickSpan,
                   requestCount, respStatus, err, outcome, bodyCloses, logs,
                   ready, requests>>
    /\ UNCHANGED concVars
    /\ UNCHANGED srv
    /\ UNCHANGED ctrVars
    /\ UNCHANGED tracerVars
    /\ UNCHANGED seen

\* RoundTrip: t.base.RoundTrip returns, tcpSpan and the transport span end
BaseRoundTripDone(code) ==
    /\ pc = "rt_wait"
    /\ LET k  == cur.tcp
           t  == cur.transport
           s1 == IF code = 0
                 THEN SetStatus(RecordError(
                          SetStatus(RecordError(spans, k), k, "Error"),
                          t), t, "Error")
                 ELSE SetStatusMsg(SetAttributes(
                          SetStatus(SetAttributes(spans, k, {"tcp.duration_ms"}),
                                    k, "Ok"),
                          t, {"http.response.status_code", "http.response.size",
                              "http.duration_ms"}),
                          t, TransportStatus(code), StatusMessage(code))
       IN  /\ spans' = EndAll(s1, RoundTripEnds(k, t))
           /\ events' = events \o EndEvents(RoundTripEnds(k, t))
    /\ respStatus' = code
    /\ err' = RoundTripReturn(IF code = 0 THEN "transport" ELSE "nil")
    /\ pc' = "do_returned"
    /\ UNCHANGED <<url, cancelled, tickerC, elapsed, dropped, tickSpan,
                   requestCount, outcome, bodyCloses, baseCalls, cur, logs,
                   ready, requests>>
    /\ UNCHANGED concVars
    /\ UNCHANGED srv
    /\ UNCHANGED ctrVars
    /\ UNCHANGED tracerVars
    /\ UNCHANGED seen

\* Get: httpClient.Do returned
GetFinish ==
    /\ pc = "do_returned"
    /\ LET g == cur.get
       IN  IF err # "nil"
           THEN /\ spans' = EndAll(SetStatus(RecordError(spans, g), g, "Error"),
                                   GetEnds(g))
                /\ logs' = Append(logs, LogRecord(BaseLogger, "client",
                                                  GetFailureLevel,
                                                  "HTTP request failed"))
           ELSE /\ spans' = EndAll(
                       SetStatusMsg(SetAttributes(spans, g,
                           {"http.response.status_code", "http.response.size"}),
                           g, GetStatus(respStatus), StatusMessage(respStatus)),
                       GetEnds(g))
                /\ logs' = Append(logs, LogRecord(BaseLogger, "client",
                                GetLogLevel(respStatus),
                                IF respStatus >= ErrorThreshold
                                THEN "HTTP request returned error status"
                                ELSE "HTTP request completed successfully"))
    /\ events' = events \o EndEvents(GetEnds(cur.get))
    /\ err' = GetReturn(err, respStatus)
    /\ pc' = "get_returned"
    /\ UNCHANGED <<url, cancelled, tickerC, elapsed, dropped, tickSpan,
                   requestCount, respStatus, outcome, bodyCloses,
                   baseCalls, cur, ready, requests>>
    /\ UNCHANGED concVars
    /\ UNCHANGED srv
    /\ UNCHANGED ctrVars
    /\ UNCHANGED tracerVars
    /\ UNCHANGED seen

\* makeRequest: client.Get returned
AfterGet ==
    /\ pc = "get_returned"
    /\ LET c == cur.cycle
           x == CorrelationSpan(c, cur.get)
           l == WithTraceContext(BaseLogger, spans[x].trace, x)
       IN  IF err # "nil"
           THEN /\ spans' = EndAll(SetStatus(RecordError(spans, c), c, "Error"),
                                   MakeRequestEnds(c))
                /\ logs' = Append(logs, LogRecord(l, "scheduler", "error",
                                                  "Request failed"))
                /\ events' = events \o <<Logged(Len(logs) + 1)>>
                                     \o EndEvents(MakeRequestEnds(c))
                /\ outcome' = IF err = "construct" THEN "construct_failure"
                              ELSE "transport_failure"
                /\ pc' = "increment"
           ELSE /\ pc' = "body_wait"
                /\ UNCHANGED <<spans, logs, events, outcome>>
    /\ UNCHANGED <<url, cancelled, tickerC, elapsed, dropped, tickSpan,
                   requestCount, respStatus, err, bodyCloses, baseCalls, cur,
                   ready, requests>>
    /\ UNCHANGED concVars
    /\ UNCHANGED srv
    /\ UNCHANGED ctrVars
    /\ UNCHANGED tracerVars
    /\ UNCHANGED seen

\* makeRequest: io.ReadAll returned; the deferred resp.Body.Close() and
\* span.End() run when makeRequest returns
ReadAllDone(ok) ==
    /\ pc = "body_wait"
    /\ LET c == cur.cycle
           x == CorrelationSpan(c, cur.get)
           l == WithTraceContext(BaseLogger, spans[x].trace, x)
       IN  /\ IF ~ok
              THEN /\ spans' = EndAll(
                         SetStatus(RecordError(
                             SetAttributes(spans, c, ReadFailureAttrs), c),
                             c, "Error"),
                         MakeRequestEnds(c))
                   /\ logs' = Append(logs, LogRecord(l, "scheduler", "error",
                                         "Failed to read response body"))
                   /\ err' = "read"
                   /\ outcome' = "body_read_failure"
              ELSE /\ spans' = EndAll(
                         SetStatusMsg(SetAttributes(spans, c,
                             {"request.cycle.duration_ms", "request.success",
                              "http.status_code", "response.size"}
                             \cup (IF respStatus >= ErrorThreshold
                                   THEN {"request.error"} ELSE {})),
                             c, CycleStatus(respStatus),
                             StatusMessage(respStatus)),
                         MakeRequestEnds(c))
                   /\ logs' = Append(logs, LogRecord(l, "scheduler",
                                         CycleLogLevel(respStatus),
                                         CycleLogMsg(respStatus)))
                   /\ err' = "nil"
                   /\ outcome' = IF respStatus >= ErrorThreshold
                                 THEN "http_error" ELSE "success"
           /\ events' = events
                         \o <<Logged(Len(logs) + 1)>>
                         \o [i \in 1..BodyCloseCalls(ok) |-> BodyClosed(c)]
                         \o EndEvents(MakeRequestEnds(c))
    /\ bodyCloses' = bodyCloses + BodyCloseCalls(ok)
    /\ pc' = "increment"
    /\ UNCHANGED <<url, cancelled, tickerC, elapsed, dropped, tickSpan,
                   requestCount, respStatus, baseCalls, cur, ready, requests>>
    /\ UNCHANGED concVars
    /\ UNCHANGED srv
    /\ UNCHANGED ctrVars
    /\ UNCHANGED tracerVars
    /\ UNCHANGED seen

\* main: healthServer.IncrementRequests(), back to the select
Increment ==
    /\ pc = "increment"
    /\ requests' = CounterAfterTick(requests, outcome)
    /\ ready' = ReadyAfterTick(ready, outcome)
    /\ pc' = LoopNext(outcome)
    /\ UNCHANGED <<url, cancelled, tickerC, elapsed, dropped, tickSpan,
                   requestCount, respStatus, err, outcome, bodyCloses,
                   baseCalls, cur, spans, events, logs>>
    /\ UNCHANGED concVars
    /\ UNCHANGED srv
    /\ UNCHANGED ctrVars
    /\ UNCHANGED tracerVars
    /\ UNCHANGED seen

-----------------------------------------------------------------------------
(* health.Server handlers and mutators, called from any goroutine *)

NoResponse == [path |-> "none", code |-> 0, status |-> "none",
               requests_total |-> 0, service_ready |-> 0]

\* (variant: /health is gated on readiness)
HealthResponse_Gated(rdy, reqs) ==
    IF rdy = 1
    THEN [NoResponse EXCEPT !.path = "/health", !.code = 200,
                            !.status = "healthy"]
    ELSE [NoResponse EXCEPT !.path = "/health", !.code = 503,
                            !.status = "unhealthy"]

\* healthHandler: the response, whatever the status state
HealthResponse(rdy, reqs) ==
    [NoResponse EXCEPT !.path = "/health", !.code = 200, !.status = "healthy"]

\* readyHandler: the response for the loaded flag
ReadyResponse(rdy) ==
    IF rdy = 1
    THEN [NoResponse EXCEPT !.path = "/ready", !.code = 200, !.status = "ready"]
    ELSE [NoResponse EXCEPT !.path = "/ready", !.code = 503,
                            !.status = "not_ready"]

\* (variant: the gauge is printed as 1 without loading the flag)
MetricsResponse_GaugeFixed(reqs, rdy) ==
    [NoResponse EXCEPT !.path = "/metrics", !.code = 200,
                       !.requests_total = reqs, !.service_ready = 1]

\* (variant: the two values are formatted in the wrong order)
MetricsResponse_Swapped(reqs, rdy) ==
    [NoResponse EXCEPT !.path = "/metrics", !.code = 200,
                       !.requests_total = rdy, !.service_ready = reqs]

\* metricsHandler: the response for the two loaded values
MetricsResponse(reqs, rdy) ==
    [NoResponse EXCEPT !.path = "/metrics", !.code = 200,
                       !.requests_total = reqs, !.service_ready = rdy]

\* a goroutine calls s.IncrementRequests()
CallerIncrement(w) ==
    /\ callsDone[w] < CallsPerCaller
    /\ requests' = IncrementRequests(requests)
    /\ callsDone' = [callsDone EXCEPT ![w] = @ + 1]
    /\ UNCHANGED <<ready, hpc, hreq, hresp, setReadyLog>>
    /\ UNCHANGED schedVars
    /\ UNCHANGED srv
    /\ UNCHANGED ctrVars
    /\ UNCHANGED tracerVars
    /\ UNCHANGED seen

\* a goroutine calls s.SetReady(b)
SetReady(b) ==
    /\ Len(setReadyLog) < MaxSetReadyCalls
    /\ ready' = AtomicStoreInt32(ready, SetReadyValue(b))
    /\ setReadyLog' = Append(setReadyLog, b)
    /\ UNCHANGED <<requests, callsDone, hpc, hreq, hresp>>
    /\ UNCHANGED schedVars
    /\ UNCHANGED srv
    /\ UNCHANGED ctrVars
    /\ UNCHANGED tracerVars
    /\ seen' = SeenAfterStore(seen, ready', Loading)

\* healthHandler
HealthHandler(h) ==
    /\ hpc[h] = "idle"
    /\ hresp' = [hresp EXCEPT ![h] = HealthResponse(ready, requests)]
    /\ requests' = RequestsAfterHandler(requests)
    /\ UNCHANGED <<ready, callsDone, hpc, hreq, setReadyLog>>
    /\ UNCHANGED schedVars
    /\ UNCHANGED srv
    /\ UNCHANGED ctrVars
    /\ UNCHANGED tracerVars
    /\ UNCHANGED seen

\* readyHandler: one atomic load of s.ready
ReadyHandler(h) ==
    /\ hpc[h] = "idle"
    /\ hresp' = [hresp EXCEPT ![h] = ReadyResponse(ready)]
    /\ requests' = RequestsAfterHandler(requests)
    /\ UNCHANGED <<ready, callsDone, hpc, hreq, setReadyLog>>
    /\ UNCHANGED schedVars
    /\ UNCHANGED srv
    /\ UNCHANGED ctrVars
    /\ UNCHANGED tracerVars
    /\ UNCHANGED seen

\* metricsHandler: atomic.LoadInt64(&s.requests)
MetricsLoadRequests(h) ==
    /\ hpc[h] = "idle"
    /\ hreq' = [hreq EXCEPT ![h] = requests]
    /\ hpc' = [hpc EXCEPT ![h] = "metrics"]
    /\ UNCHANGED <<ready, requests, callsDone, hresp, setReadyLog>>
    /\ UNCHANGED schedVars
    /\ UNCHANGED srv
    /\ UNCHANGED ctrVars
    /\ UNCHANGED tracerVars
    /\ seen' = SeenAtLoad(seen, h, ready)

\* metricsHandler: atomic.LoadInt32(&s.ready), then the response is written
MetricsLoadReady(h) ==
    /\ hpc[h] = "metrics"
    /\ hresp' = [hresp EXCEPT ![h] = MetricsResponse(hreq[h], ready)]
    /\ hreq' = [hreq EXCEPT ![h] = 0]
    /\ hpc' = [hpc EXCEPT ![h] = "idle"]
    /\ requests' = RequestsAfterHandler(requests)
    /\ UNCHANGED <<ready, callsDone, setReadyLog>>
    /\ UNCHANGED schedVars
    /\ UNCHANGED srv
    /\ UNCHANGED ctrVars
    /\ UNCHANGED tracerVars
    /\ seen' = SeenAtReport(seen, h, ready)

\* s.IncrementRequests() on a counter word of any value
WordIncrement ==
    /\ wordCalls < MaxWordCalls
    /\ word' = IncrementRequestsWord(word)
    /\ wordCalls' = wordCalls + 1
    /\ UNCHANGED reported
    /\ UNCHANGED schedVars
    /\ UNCHANGED <<ready, requests, srv, seen>>
    /\ UNCHANGED concVars
    /\ UNCHANGED tracerVars

\* metricsHandler prints the counter word
WordReport ==
    /\ Len(reported) < MaxReports
    /\ reported' = Append(reported, MetricsRequestsTotal(word))
    /\ UNCHANGED <<word, wordCalls>>
    /\ UNCHANGED schedVars
    /\ UNCHANGED <<ready, requests, srv, seen>>
    /\ UNCHANGED concVars
    /\ UNCHANGED tracerVars

\* tracer.New(config, logger); the exporter and the resource are built
\* without error
NewTracer(disabled) ==
    /\ Len(tracers) < MaxNewCalls
    /\ tracers' = Append(tracers, NewTracerValue(disabled))
    /\ IF disabled
       THEN UNCHANGED <<insecure, globalTP>>
       ELSE /\ insecure' = <<shouldUseInsecure(EndpointText(endpoint))>>
            /\ globalTP' = "sdk"
    /\ UNCHANGED <<endpoint, tspans>>
    /\ UNCHANGED schedVars
    /\ UNCHANGED <<ready, requests, srv, seen>>
    /\ UNCHANGED concVars
    /\ UNCHANGED ctrVars

\* t.GetTracer().Start(...); span.End() on the i-th Tracer: the span goes to
\* the batcher and the exporter when its provider is the SDK one
TracerStartSpan(i) ==
    /\ i <= Len(tracers)
    /\ Len(tspans) < MaxTracerSpans
    /\ tspans' = Append(tspans,
                        [tracer   |-> i,
                         exported |-> SpanProvider(tracers[i], globalTP) = "sdk"])
    /\ UNCHANGED <<endpoint, insecure, globalTP, tracers>>
    /\ UNCHANGED schedVars
    /\ UNCHANGED <<ready, requests, srv, seen>>
    /\ UNCHANGED concVars
    /\ UNCHANGED ctrVars

-----------------------------------------------------------------------------
(* State after health.New and the declarations of main *)

InitFields ==
    /\ pc = "start"
    /\ url \in TargetURLs
    /\ cancelled = FALSE
    /\ tickerC = 0
    /\ elapsed = 0
    /\ dropped = 0
    /\ tickSpan = 0
    /\ requestCount = 0
    /\ respStatus = 0
    /\ err = "nil"
    /\ outcome = "none"
    /\ bodyCloses = 0
    /\ baseCalls = 0
    /\ cur = NoHandles
    /\ spans = << >>
    /\ events = << >>
    /\ logs = << >>
    /\ ready = 0
    /\ requests = 0
    /\ callsDone = [w \in 1..NumCallers |-> 0]
    /\ hpc = [h \in 1..NumHandlers |-> "idle"]
    /\ hreq = [h \in 1..NumHandlers |-> 0]
    /\ hresp = [h \in 1..NumHandlers |-> NoResponse]
    /\ setReadyLog = << >>
    /\ srv = "new"
    /\ wordCalls = 0
    /\ reported = << >>
    /\ insecure = << >>
    /\ globalTP = "default"
    /\ tracers = << >>
    /\ tspans = << >>

\* "requests int64" is zero in the Server that health.New returns
Init ==
    /\ InitFields
    /\ word = Int64Zero
    /\ endpoint = DefaultEndpoint
    /\ seen = SeenOff

\* the program: main's loop, the timer, the signal
Next ==
    \/ Startup
    \/ TimerFire
    \/ Cancel
    \/ Shutdown
    \/ TickFire
    \/ MakeRequestStart
    \/ GetStart
    \/ RoundTripStart
    \/ \E ok \in LookupOutcomes(url) : LookupDone(ok)
    \/ \E code \in BaseRoundTripOutcomes(url, cancelled) : BaseRoundTripDone(code)
    \/ GetFinish
    \/ AfterGet
    \/ \E ok \in ReadAllOutcomes(cancelled) : ReadAllDone(ok)
    \/ Increment

Spec == Init /\ [][Next]_vars

\* the steps of a tick in flight: the goroutine of main is runnable at each
\* of them, and the calls it waits in (the resolver, the base transport
\* under the client's Timeout, the body read) return
TickStep ==
    \/ MakeRequestStart
    \/ GetStart
    \/ RoundTripStart
    \/ \E ok \in LookupOutcomes(url) : LookupDone(ok)
    \/ \E code \in BaseRoundTripOutcomes(url, cancelled) : BaseRoundTripDone(code)
    \/ GetFinish
    \/ AfterGet
    \/ \E ok \in ReadAllOutcomes(cancelled) : ReadAllDone(ok)
    \/ Increment

\* fair scheduling: a tick in flight goes on, and the select statement, which
\* picks among its ready cases at random, does not pass over ctx.Done() for
\* ever; firings of the timer and the signal are left to the environment
SpecLive == Init /\ [][Next]_vars /\ WF_vars(TickStep) /\ SF_vars(Shutdown)

\* a health.Server used from several goroutines at once
NextStatus ==
    \/ \E w \in 1..NumCallers : CallerIncrement(w)
    \/ \E b \in BOOLEAN : SetReady(b)
    \/ \E h \in 1..NumHandlers : HealthHandler(h)
    \/ \E h \in 1..NumHandlers : ReadyHandler(h)
    \/ \E h \in 1..NumHandlers : MetricsLoadRequests(h)
    \/ \E h \in 1..NumHandlers : MetricsLoadReady(h)

\* the target URL plays no part in the status server
InitStatus == Init /\ url = "http://target"

SpecStatus == InitStatus /\ [][NextStatus]_vars

\* /metrics handlers of a health.Server whose two fields are written by
\* other goroutines meanwhile, with the history of the fields kept
InitMetrics ==
    /\ InitFields
    /\ url = "http://target"
    /\ word = Int64Zero
    /\ endpoint = DefaultEndpoint
    /\ seen = SeenOn

NextMetrics ==
    \/ \E w \in 1..NumCallers : CallerIncrement(w)
    \/ \E b \in BOOLEAN : SetReady(b)
    \/ \E h \in 1..NumHandlers : MetricsLoadRequests(h)
    \/ \E h \in 1..NumHandlers : MetricsLoadReady(h)

SpecMetrics == InitMetrics /\ [][NextMetrics]_vars

\* the request counter at full width: the words the counter holds after
\* 0, 65535, 2^63 - 2 and 2^63 - 1 increments
StartWords == {Int64Zero, <<0, 0, 0, 65535>>,
               AtomicAddInt64Word(Int64Max, -1), Int64Max}

InitCounter ==
    /\ InitFields
    /\ url = "http://target"
    /\ word \in StartWords
    /\ endpoint = DefaultEndpoint
    /\ seen = SeenOff

NextCounter ==
    \/ WordIncrement
    \/ WordReport

SpecCounter == InitCounter /\ [][NextCounter]_vars

\* the tracer package: New called with any endpoint text, enabled or
\* disabled, any number of times in one process
Endpoints == UNION {[1..n -> Pieces] : n \in 0..MaxPieces}

InitTracer ==
    /\ InitFields
    /\ url = "http://target"
    /\ word = Int64Zero
    /\ endpoint \in Endpoints
    /\ seen = SeenOff

NextTracer ==
    \/ \E d \in BOOLEAN : NewTracer(d)
    \/ \E i \in 1..MaxNewCalls : TracerStartSpan(i)

SpecTracer == InitTracer /\ [][NextTracer]_vars

-----------------------------------------------------------------------------
(* Properties *)

Spans == DOMAIN spans
Roots == {i \in Spans : spans[i].name = "request.cycle"}
Children(p) == {i \in Spans : spans[i].parent = p}
HasStarted(i) == \E k \in 1..Len(events) : events[k] = Started(i)
HasEnded(i) == \E k \in 1..Len(events) : events[k] = Ended(i)
StartPos(i) == CHOOSE k \in 1..Len(events) : events[k] = Started(i)
EndPos(i) == CHOOSE k \in 1..Len(events) : events[k] = Ended(i)
EndEventCount(i) == Cardinality({k \in 1..Len(events) : events[k] = Ended(i)})
FailureOutcomes == {"http_error", "transport_failure", "construct_failure",
                    "body_read_failure"}
SchedulerLogs(c) ==
    {k \in 1..Len(logs) : logs[k].component = "scheduler" /\ logs[k].span_id = c}

RECURSIVE SumCalls(_)
SumCalls(n) == IF n = 0 THEN 0 ELSE callsDone[n] + SumCalls(n - 1)

\* C1: whenever no tick is in flight, the request counter equals the number
\* of ticks the loop has completed (the ticks it started, each of which
\* closed its request.cycle span), whatever their outcomes were.
C1_CounterEqualsCompletedTicks ==
    ~InFlight =>
        /\ requests = requestCount
        /\ requests = Cardinality({c \in Roots : spans[c].ends = 1})

C1_Witness ==
    /\ pc = "select"
    /\ requests = 2
    /\ outcome \in FailureOutcomes
    /\ \E c \in Roots : spans[c].status = "Ok"

\* C2: with IncrementRequests called from several goroutines in any
\* interleaving, together with SetReady calls and the handlers' loads, the
\* counter always equals the number of calls made so far, hence the total
\* number of calls once every caller is done.
C2_NoLostUpdate ==
    /\ requests = SumCalls(NumCallers)
    /\ (\A w \in 1..NumCallers : callsDone[w] = CallsPerCaller)
           => requests = NumCallers * CallsPerCaller

C2_Witness ==
    /\ \A w \in 1..NumCallers : callsDone[w] = CallsPerCaller
    /\ \E h \in 1..NumHandlers :
           /\ hpc[h] = "metrics"
           /\ hreq[h] > 0
           /\ hreq[h] < requests

\* C3: the loop leaves Running only from the select and only when the
\* context is cancelled; after a tick, whatever its outcome, the loop is
\* back at the select.
C3_OnlyCancellationStopsLoop ==
    [][ /\ (pc # "stopped" /\ pc' = "stopped") => (cancelled /\ pc = "select")
        /\ (pc = "increment" /\ pc' # pc) => pc' = "select" ]_vars

C3_Witness ==
    /\ requestCount >= 2
    /\ pc = "makeRequest"
    /\ outcome \in FailureOutcomes
    /\ ~cancelled

\* C4: once the context is cancelled the loop starts no new tick.
C4_NoTickAfterCancel ==
    [][ cancelled => ~(pc = "select" /\ pc' = "makeRequest") ]_vars

\* C5: at most one request.cycle span is open at any time, and every open
\* span belongs to the one tick the loop is executing.
C5_AtMostOneTickInFlight ==
    /\ Cardinality({c \in Roots : spans[c].ends = 0}) <= 1
    /\ \A i \in Spans :
           spans[i].ends = 0 => (InFlight /\ spans[i].trace = cur.cycle)
    /\ \A c \in Roots : spans[c].ends = 0 => spans[c].count = requestCount

C5_Witness ==
    /\ requestCount = 2
    /\ pc = "rt_wait"
    /\ Cardinality({i \in Spans : spans[i].ends = 0}) = 4

\* C6: ticker.C never holds more than one firing; every elapsed interval
\* is a tick that was started, the one pending firing, or a skipped firing;
\* once a firing elapsed during a tick the next tick is pending when the tick
\* completes; after a skipped firing the ticks run stay below the intervals
\* elapsed.
C6_TicksNeverQueued ==
    /\ tickerC <= TickerCap
    /\ requestCount + tickerC + dropped = elapsed
    /\ (InFlight /\ tickSpan >= 1) => tickerC = TickerCap
    /\ dropped > 0 => requestCount < elapsed

C6_Witness ==
    /\ pc = "makeRequest"
    /\ requestCount = 2
    /\ tickSpan = 0
    /\ dropped >= 1
    /\ tickerC = 0

\* C7: no span is ended twice, every span of a function that has returned
\* has been ended, and a span is never ended before one of its children.
C7_SpansClosedExactlyOnce ==
    /\ \A i \in Spans : spans[i].ends <= 1 /\ EndEventCount(i) = spans[i].ends
    /\ ~InFlight => \A i \in Spans : spans[i].ends = 1
    /\ pc = "increment" => \A i \in Spans : spans[i].ends = 1
    /\ pc = "get_returned" =>
           \A i \in Spans : spans[i].name # "request.cycle" => spans[i].ends = 1
    /\ pc = "do_returned" =>
           \A i \in Spans :
               spans[i].name \notin {"request.cycle", "http.get"}
                   => spans[i].ends = 1
    /\ \A p \in Spans : HasEnded(p) =>
           \A i \in Children(p) : HasEnded(i) /\ EndPos(i) < EndPos(p)

C7_Witness ==
    /\ pc = "increment"
    /\ outcome = "body_read_failure"
    /\ Len(spans) = 10
    /\ \A i \in Spans : spans[i].ends = 1

\* C8: in a completed tick that reached the transport, dns.resolve and
\* tcp.connect end before http.transport, http.transport before http.get,
\* http.get before request.cycle.
NestingRank(name) ==
    CASE name = "dns.resolve" -> 1
      [] name = "tcp.connect" -> 1
      [] name = "http.transport" -> 2
      [] name = "http.get" -> 3
      [] name = "request.cycle" -> 4

TraceSpans(c) == {i \in Spans : spans[i].trace = c}

C8_StrictNestingOrder ==
    \A c \in Roots :
        (HasEnded(c) /\ \E t \in TraceSpans(c) :
                            spans[t].name = "http.transport")
        => /\ \A n \in {"dns.resolve", "tcp.connect", "http.transport",
                         "http.get"} :
                  \E i \in TraceSpans(c) : spans[i].name = n
           /\ \A i \in TraceSpans(c) :
                  \A j \in {x \in TraceSpans(c) :
                               NestingRank(spans[i].name)
                                   < NestingRank(spans[x].name)} :
                      HasEnded(i) /\ HasEnded(j) /\ EndPos(i) < EndPos(j)

C8_Witness ==
    /\ pc = "increment"
    /\ cur.tcp # 0
    /\ HasEnded(cur.cycle)
    /\ spans[cur.dns].status = "Error"
    /\ spans[cur.tcp].status = "Ok"

\* C9: when the request.cycle span of tick N+1 starts, the request.cycle
\* span of tick N and every span of its trace have ended; two request.cycle
\* spans are never open together.
C9_TicksDoNotOverlap ==
    \A c1, c2 \in Roots :
        spans[c2].count = spans[c1].count + 1 =>
            \A i \in TraceSpans(c1) :
                HasEnded(i) /\ EndPos(i) < StartPos(c2)

C9_Witness ==
    /\ pc = "dns_wait"
    /\ requestCount = 2
    /\ Cardinality(Roots) = 2
    /\ outcome = "transport_failure"

\* C10: the outcome of a completed tick fixes the status of its root span
\* and the level of the one record the scheduler writes for it, correlated
\* with the root span: a response with status < 400 that was read gives Ok
\* and info, a response with status >= 400 that was read gives Error and
\* warn, a network failure (client.Get failed in the transport, or the read
\* of the body failed) gives Error and error.
C10_OutcomeClassification ==
    pc = "increment" =>
        LET c == cur.cycle
            levels == {logs[k].level : k \in SchedulerLogs(c)}
        IN  /\ Cardinality(SchedulerLogs(c)) = 1
            /\ \A k \in SchedulerLogs(c) : logs[k].trace_id = spans[c].trace
            /\ (err = "nil" /\ respStatus # 0 /\ respStatus < 400) =>
                   (spans[c].status = "Ok" /\ levels = {"info"})
            /\ (err = "nil" /\ respStatus >= 400) =>
                   (spans[c].status = "Error" /\ levels = {"warn"})
            /\ err \in {"transport", "read"} =>
                   (spans[c].status = "Error" /\ levels = {"error"})
            /\ \/ err = "nil" /\ respStatus # 0
               \/ err \in {"transport", "read", "construct"}

C10_Witness ==
    /\ pc = "increment"
    /\ err = "nil"
    /\ respStatus = 400
    /\ spans[cur.cycle].status = "Error"

\* the records written to the log sink during the tick of root span c: those
\* after the scheduler's record of the previous tick, up to the scheduler's
\* record of this tick
SchedPos(c) == CHOOSE k \in SchedulerLogs(c) : TRUE
TickLogs(c) ==
    {k \in 1..SchedPos(c) :
        \A j \in 1..(SchedPos(c) - 1) : logs[j].component = "scheduler" => j < k}
OutcomeLevel ==
    IF err # "nil" THEN "error"
    ELSE IF respStatus >= ErrorThreshold THEN "warn" ELSE "info"
SaysCompletedSuccessfully(msg) == msg = "HTTP request completed successfully"

LastSetReady ==
    IF setReadyLog = << >> THEN "never"
    ELSE IF setReadyLog[Len(setReadyLog)] THEN "true" ELSE "false"

\* C12: whenever /ready is handled, it answers 200 "ready" if the most
\* recent SetReady call was SetReady(true), and 503 "not_ready" if it was
\* SetReady(false) or if SetReady was never called.
C12_ReadinessGating ==
    [][ \A h \in 1..NumHandlers :
            ReadyHandler(h) =>
                /\ hresp'[h].path = "/ready"
                /\ LastSetReady = "true" =>
                       (hresp'[h].code = 200 /\ hresp'[h].status = "ready")
                /\ LastSetReady \in {"never", "false"} =>
                       (hresp'[h].code = 503 /\ hresp'[h].status = "not_ready")
      ]_vars

C12_Witness ==
    /\ setReadyLog = <<TRUE, FALSE>>
    /\ ready = 0
    /\ \E h \in 1..NumHandlers :
           hresp[h].path = "/ready" /\ hresp[h].code = 503

\* C13: a SetReady call leaves the request counter, the callers and the
\* handlers alone, and a SetReady call with the argument of the previous
\* call leaves the whole status state as it was.
C13_SetReadyIdempotent ==
    [][ setReadyLog' # setReadyLog =>
            /\ requests' = requests
            /\ ready' = (IF setReadyLog'[Len(setReadyLog')] THEN 1 ELSE 0)
            /\ (/\ setReadyLog # << >>
                /\ setReadyLog'[Len(setReadyLog')] = setReadyLog[Len(setReadyLog)])
               => ready' = ready
      ]_vars

C13_Witness ==
    /\ \/ setReadyLog = <<TRUE, TRUE>> /\ ready = 1
       \/ setReadyLog = <<FALSE, FALSE>> /\ ready = 0
    /\ requests > 0

\* C14: a /health response is 200 "healthy" whatever the readiness flag and
\* the request counter are.
C14_HealthAlwaysHealthy ==
    [][ \A h \in 1..NumHandlers :
            HealthHandler(h) =>
                (/\ hresp'[h].path = "/health"
                 /\ hresp'[h].code = 200
                 /\ hresp'[h].status = "healthy") ]_vars

C14_Witness ==
    /\ ready = 0
    /\ requests > 0
    /\ setReadyLog = <<TRUE, FALSE>>
    /\ \E h \in 1..NumHandlers :
           hresp[h].path = "/health" /\ hresp[h].code = 200

\* C15: /metrics loads the number of IncrementRequests calls made so far,
\* and answers 200 with that number as http_requests_total and with
\* service_ready 1 if the most recent SetReady call was SetReady(true), 0
\* otherwise (0 too when SetReady was never called).
C15_MetricsReportsState ==
    [][ \A h \in 1..NumHandlers :
            /\ MetricsLoadRequests(h) => hreq'[h] = SumCalls(NumCallers)
            /\ MetricsLoadReady(h) =>
                   /\ hresp'[h].path = "/metrics"
                   /\ hresp'[h].code = 200
                   /\ hresp'[h].requests_total = hreq[h]
                   /\ hresp'[h].service_ready \in {0, 1}
                   /\ hresp'[h].service_ready =
                          (IF LastSetReady = "true" THEN 1 ELSE 0)
      ]_vars

C15_Witness ==
    /\ setReadyLog = <<FALSE, TRUE>>
    /\ requests = 2
    /\ \E h \in 1..NumHandlers :
           /\ hresp[h].path = "/metrics"
           /\ hresp[h].requests_total = 2
           /\ hresp[h].service_ready = 1

\* C16: a response with status >= 400 is never an error value: after RoundTrip
\* (httpClient.Do) and after Get the error is nil and the response is kept;
\* the failure shows only as span status Error, with no error recorded on the
\* http.transport and http.get spans, and as a warn record of the client.
C16_StatusNeverAnError ==
    /\ (pc \in {"do_returned", "get_returned"} /\ respStatus >= ErrorThreshold)
           => err = "nil"
    /\ (pc = "get_returned" /\ respStatus >= ErrorThreshold) =>
           /\ spans[cur.transport].status = "Error"
           /\ spans[cur.transport].errors = 0
           /\ spans[cur.get].status = "Error"
           /\ spans[cur.get].errors = 0
           /\ logs[Len(logs)].component = "client"
           /\ logs[Len(logs)].level = "warn"
    /\ (pc = "body_wait") => (err = "nil" /\ respStatus # 0)

C16_Witness ==
    /\ pc = "get_returned"
    /\ respStatus = ErrorThreshold
    /\ err = "nil"
    /\ spans[cur.get].status = "Error"

\* C17: when the underlying round trip returns an error, RoundTrip has called
\* it once, the tcp.connect span and the http.transport span are both Error
\* with the error recorded once on each and both closed, and RoundTrip
\* returns that error as it is, with no response.
C17_BaseErrorPropagated ==
    /\ InFlight => baseCalls <= 1
    /\ (pc = "do_returned" /\ respStatus = 0) =>
           /\ err = "transport"
           /\ baseCalls = 1
           /\ spans[cur.tcp].status = "Error"
           /\ spans[cur.tcp].errors = 1
           /\ spans[cur.tcp].ends = 1
           /\ spans[cur.transport].status = "Error"
           /\ spans[cur.transport].errors = 1
           /\ spans[cur.transport].ends = 1

C17_Witness ==
    /\ pc = "do_returned"
    /\ err = "transport"
    /\ respStatus = 0
    /\ spans[cur.dns].status = "Ok"
    /\ spans[cur.tcp].status = "Error"

\* C18: a failed DNS lookup does not abort RoundTrip: the dns.resolve span is
\* Error, carries the error and is closed, the tcp.connect span is opened and
\* the underlying round trip is called, the http.transport span is untouched
\* by the lookup, and what RoundTrip returns and the final status of the
\* http.transport span depend on the underlying round trip alone.
C18_LookupFailureDoesNotAbort ==
    /\ (pc = "rt_wait" /\ spans[cur.dns].status = "Error") =>
           /\ spans[cur.dns].errors = 1
           /\ spans[cur.dns].ends = 1
           /\ cur.tcp # 0
           /\ HasStarted(cur.tcp)
           /\ spans[cur.tcp].ends = 0
           /\ baseCalls = 1
           /\ spans[cur.transport].status = "Unset"
           /\ spans[cur.transport].errors = 0
           /\ spans[cur.transport].ends = 0
    /\ (pc = "do_returned" /\ spans[cur.dns].status = "Error") =>
           /\ err = (IF respStatus = 0 THEN "transport" ELSE "nil")
           /\ spans[cur.transport].status =
                  (IF respStatus = 0 \/ respStatus >= ErrorThreshold
                   THEN "Error" ELSE "Ok")
           /\ spans[cur.transport].errors = (IF respStatus = 0 THEN 1 ELSE 0)
    /\ pc \in {"rt_wait", "do_returned"} =>
           spans[cur.dns].status \in {"Ok", "Error"}

C18_Witness ==
    /\ pc = "do_returned"
    /\ spans[cur.dns].status = "Error"
    /\ respStatus = 200
    /\ err = "nil"
    /\ spans[cur.transport].status = "Ok"

\* C19: with a target URL the request cannot be built from, Get records the
\* error on the http.get span, marks it Error, closes it and returns an
\* error; RoundTrip is never entered, the underlying round trip is never
\* called and no http.transport, dns.resolve or tcp.connect span exists.
C19_ConstructionFailure ==
    NewRequestFails(url) =>
        /\ \A i \in Spans :
               spans[i].name \notin {"http.transport", "dns.resolve", "tcp.connect"}
        /\ baseCalls = 0
        /\ pc \notin {"RoundTrip", "dns_wait", "rt_wait", "do_returned", "body_wait"}
        /\ cur.transport = 0 /\ cur.dns = 0 /\ cur.tcp = 0
        /\ pc = "get_returned" =>
               /\ err = "construct"
               /\ respStatus = 0
               /\ spans[cur.get].name = "http.get"
               /\ spans[cur.get].status = "Error"
               /\ spans[cur.get].errors = 1
               /\ spans[cur.get].ends = 1

C19_Witness ==
    /\ NewRequestFails(url)
    /\ pc = "get_returned"
    /\ err = "construct"
    /\ requestCount = 2
    /\ spans[cur.get].status = "Error"

BodyCloseEvents(c) == {k \in 1..Len(events) : events[k] = BodyClosed(c)}

\* C20: a tick that got a response from Get has closed its body exactly once
\* when makeRequest returns, after a full read and after a read error alike,
\* and the close comes before the end of the request.cycle span; nothing is
\* closed before makeRequest has the response (Get closes nothing), and a
\* tick without a response closes nothing.
C20_BodyClosedOnce ==
    /\ (InFlight /\ pc # "increment") => bodyCloses = 0
    /\ pc = "increment" =>
           LET c == cur.cycle
           IN  IF respStatus # 0
               THEN /\ bodyCloses = 1
                    /\ Cardinality(BodyCloseEvents(c)) = 1
                    /\ \A k \in BodyCloseEvents(c) : k < EndPos(c)
               ELSE /\ bodyCloses = 0
                    /\ BodyCloseEvents(c) = {}
    /\ \A c \in Roots : Cardinality(BodyCloseEvents(c)) <= 1

C20_Witness ==
    /\ pc = "increment"
    /\ err = "read"
    /\ respStatus # 0
    /\ bodyCloses = 1
    /\ requestCount = 2

\* C21: once the cancellation has arrived, each wait of a tick (DNS lookup,
\* round trip, body read) ends with a failure: the lookup span is Error, the
\* round trip and the body read return an error.
C21_WaitsAreCancellable ==
    [][ cancelled =>
            /\ (pc = "dns_wait" /\ pc' = "rt_wait")
                   => spans'[cur.dns].status = "Error"
            /\ (pc = "rt_wait" /\ pc' = "do_returned") => err' # "nil"
            /\ (pc = "body_wait" /\ pc' = "increment") => err' # "nil" ]_vars

\* C22: the status server leaves its listening state only through a Stop
\* call; the end of the scheduler's loop does not take it down.
C22_ListenerLeftOnlyByStop ==
    [][ (srv = "listening" /\ srv' # "listening") => srv' = ServerStop(srv) ]_vars

PrintedLessEq(a, b) ==
    IF a.negative # b.negative THEN a.negative
    ELSE LET lo == IF a.negative THEN b.magnitude ELSE a.magnitude
             hi == IF a.negative THEN a.magnitude ELSE b.magnitude
         IN  \/ lo = hi
             \/ \E i \in 1..4 : /\ lo[i] < hi[i]
                                /\ \A j \in 1..(i - 1) : lo[j] = hi[j]

\* C24: every value printed as http_requests_total is non-negative and not
\* smaller than any value printed before it, also when the increments in
\* between take the stored word past 2^63 - 1.
C24_CounterNeverDecreases ==
    \A j \in 1..Len(reported) :
        /\ ~reported[j].negative
        /\ \A i \in 1..(j - 1) : PrintedLessEq(reported[i], reported[j])

LastLog == logs[Len(logs)]

\* C23: a record written through WithTraceContext(traceID, spanID) carries
\* trace_id = traceID and span_id = spanID and is otherwise the record the
\* base logger would have written; the base logger stays without the two
\* fields, so the records written through it, before and after, carry none.
C23_TraceContextLogger ==
    [][ Len(logs') = Len(logs) + 1 =>
            IF LastLog'.component = "scheduler"
            THEN /\ LastLog'.trace_id = spans[cur.cycle].trace
                 /\ LastLog'.span_id = cur.cycle
                 /\ [LastLog' EXCEPT !.trace_id = BaseLogger.trace_id,
                                     !.span_id = BaseLogger.span_id]
                        = LogRecord(BaseLogger, "scheduler",
                                    LastLog'.level, LastLog'.msg)
            ELSE LastLog' = LogRecord(BaseLogger, "client",
                                      LastLog'.level, LastLog'.msg) ]_vars

C23_Witness ==
    \E i, j \in 1..Len(logs) :
        /\ i < j
        /\ logs[i].component = "scheduler"
        /\ logs[i].trace_id # 0
        /\ logs[i].span_id # 0
        /\ logs[j].component = "client"
        /\ logs[j].trace_id = 0
        /\ logs[j].span_id = 0

\* C25: the request of every probe handed to the network carries the trace
\* context of the tick in a header field.
C25_TraceContextInHeaders ==
    (InFlight /\ baseCalls >= 1) =>
        \E h \in cur.headers :
            /\ h[1] = "traceparent"
            /\ h[2] = <<spans[cur.transport].trace, cur.transport>>

\* the client's records of the tick in flight: those after the last record
\* of the scheduler
ClientLogsOfTick ==
    {k \in 1..Len(logs) :
        /\ logs[k].component = "client"
        /\ \A j \in k..Len(logs) : logs[j].component # "scheduler"}

\* C26: when the request fails in the network, Get returns an error and no
\* response, the http.get span is Error with the error recorded once and is
\* closed, the client has written exactly one record for the call, at error
\* severity with the message "HTTP request failed", and the underlying round
\* trip was tried once.
C26_NetworkFailureInGet ==
    (pc = "get_returned" /\ err = "transport") =>
        /\ respStatus = 0
        /\ baseCalls = 1
        /\ spans[cur.get].status = "Error"
        /\ spans[cur.get].errors = 1
        /\ spans[cur.get].ends = 1
        /\ Cardinality(ClientLogsOfTick) = 1
        /\ \A k \in ClientLogsOfTick :
               /\ logs[k].level = "error"
               /\ logs[k].msg = "HTTP request failed"

C26_Witness ==
    /\ pc = "get_returned"
    /\ err = "transport"
    /\ url = "http://target"
    /\ requestCount = 2
    /\ LastLog.msg = "HTTP request failed"

ParentNameOf(name) ==
    CASE name = "http.get"       -> "request.cycle"
      [] name = "http.transport" -> "http.get"
      [] name = "dns.resolve"    -> "http.transport"
      [] name = "tcp.connect"    -> "http.transport"

\* C27: the spans of every tick form the tree request.cycle -> http.get ->
\* http.transport -> {dns.resolve, tcp.connect}: a request.cycle span has no
\* parent, every other span has a parent of the name above it and is its
\* parent's only child of that name, every span is in the trace of its
\* parent, and a tcp.connect span is started after the dns.resolve span of
\* the same http.transport span has ended.
C27_SpanTree ==
    \A i \in Spans :
        IF spans[i].name = "request.cycle"
        THEN /\ spans[i].parent = 0
             /\ spans[i].trace = i
        ELSE /\ spans[i].parent \in Spans
             /\ spans[spans[i].parent].name = ParentNameOf(spans[i].name)
             /\ spans[i].trace = spans[spans[i].parent].trace
             /\ \A j \in Children(spans[i].parent) :
                    spans[j].name = spans[i].name => j = i
             /\ spans[i].name = "tcp.connect" =>
                    \E d \in Children(spans[i].parent) :
                        /\ spans[d].name = "dns.resolve"
                        /\ HasEnded(d)
                        /\ EndPos(d) < StartPos(i)

C27_Witness ==
    /\ pc = "do_returned"
    /\ requestCount = 2
    /\ spans[cur.tcp].parent = cur.transport
    /\ spans[cur.dns].parent = cur.transport
    /\ spans[cur.transport].parent = cur.get
    /\ spans[cur.get].parent = cur.cycle
    /\ spans[cur.tcp].trace = cur.cycle
    /\ spans[cur.tcp].trace # spans[1].trace

\* the status a span gets from a response of the given status code
StatusRule(sp, code) ==
    IF code >= 400
    THEN sp.status = "Error" /\ sp.desc = <<"HTTP", code>>
    ELSE sp.status = "Ok" /\ sp.desc = << >>

\* C28: for a response of the underlying round trip, tcp.connect is Ok
\* whatever the status code is, and http.transport, then http.get, then
\* (after a complete read of the body) request.cycle are Error with a message
\* holding the status code when the code is >= 400 and Ok otherwise.
C28_SameRuleAtEveryLayer ==
    (respStatus # 0 /\ pc \in {"do_returned", "get_returned", "body_wait",
                               "increment"}) =>
        /\ spans[cur.tcp].status = "Ok"
        /\ spans[cur.tcp].desc = << >>
        /\ StatusRule(spans[cur.transport], respStatus)
        /\ pc # "do_returned" => StatusRule(spans[cur.get], respStatus)
        /\ (pc = "increment" /\ err = "nil") =>
               StatusRule(spans[cur.cycle], respStatus)

C28_Witness ==
    /\ pc = "increment"
    /\ err = "nil"
    /\ respStatus = 400
    /\ spans[cur.cycle].desc = <<"HTTP", 400>>
    /\ spans[cur.get].desc = <<"HTTP", 400>>
    /\ spans[cur.transport].desc = <<"HTTP", 400>>
    /\ spans[cur.tcp].status = "Ok"

AllSchedulerLogs == {k \in 1..Len(logs) : logs[k].component = "scheduler"}
LogPos(k) == CHOOSE p \in 1..Len(events) : events[p] = Logged(k)

\* C29: the n-th outcome record of the scheduler carries the trace id and
\* the span id of the request.cycle span of tick n, and it is written after
\* that span was started and before it is ended.
C29_OutcomeRecordCorrelation ==
    \A k \in AllSchedulerLogs :
        LET n == Cardinality({j \in AllSchedulerLogs : j <= k})
        IN  \E c \in Roots :
                /\ spans[c].count = n
                /\ logs[k].span_id = c
                /\ logs[k].trace_id = spans[c].trace
                /\ \E p \in 1..Len(events) : events[p] = Logged(k)
                /\ StartPos(c) < LogPos(k)
                /\ HasEnded(c) => LogPos(k) < EndPos(c)
                /\ \A p \in 1..Len(events) :
                       (events[p][1] = "start" /\ p > StartPos(c)
                            /\ p < LogPos(k)) =>
                           spans[events[p][2]].trace = spans[c].trace

C29_Witness ==
    /\ pc = "increment"
    /\ requestCount = 2
    /\ Cardinality(AllSchedulerLogs) = 2
    /\ \E k \in AllSchedulerLogs :
           /\ logs[k].span_id = cur.cycle
           /\ logs[k].span_id # 1
           /\ LogPos(k) < EndPos(cur.cycle)

\* C30: a request handled by /health, /ready or /metrics, at any point of
\* any interleaving with IncrementRequests and SetReady, changes neither the
\* readiness flag nor the request counter nor anything of the scheduler;
\* IncrementRequests leaves the readiness flag as it is and SetReady leaves
\* the counter as it is.
C30_EndpointsAreReadOnly ==
    [][ /\ (\E h \in 1..NumHandlers :
               \/ HealthHandler(h)
               \/ ReadyHandler(h)
               \/ MetricsLoadRequests(h)
               \/ MetricsLoadReady(h))
           => (ready' = ready /\ requests' = requests
                   /\ schedVars' = schedVars /\ callsDone' = callsDone)
        /\ (\E w \in 1..NumCallers : CallerIncrement(w)) => ready' = ready
        /\ (\E b \in BOOLEAN : SetReady(b)) => requests' = requests ]_vars

C30_Witness ==
    /\ requests = NumCallers * CallsPerCaller
    /\ ready = 1
    /\ hpc[1] = "metrics"
    /\ hresp[1].path = "/ready"
    /\ hresp[1].code = 200

\* C31: the K-th request.cycle span carries tick number K; main's tick
\* counter is one ahead of the request counter of the status state while a
\* tick is in flight and equal to it otherwise; the request counter reaches
\* K only after the request.cycle span of tick K has ended.
C31_TickNumbering ==
    /\ \A c \in Roots :
           spans[c].count = Cardinality({x \in Roots : x <= c})
    /\ requestCount - requests = (IF InFlight THEN 1 ELSE 0)
    /\ \A k \in 1..requests :
           \E c \in Roots : spans[c].count = k /\ spans[c].ends = 1
    /\ \A c \in Roots : spans[c].ends = 0 => requests < spans[c].count

C31_Witness ==
    /\ pc = "increment"
    /\ requestCount = 2
    /\ requests = 1
    /\ spans[cur.cycle].count = 2
    /\ spans[cur.cycle].ends = 1
    /\ spans[1].count = 1

\* C32: shouldUseInsecure answers from the text of the endpoint: not insecure
\* when it starts with https://, insecure when it starts with http://, and
\* otherwise insecure exactly when localhost or 127.0.0.1 occurs in it.
C32_InsecureFromEndpoint ==
    insecure # << >> =>
        LET first == IF endpoint = << >> THEN "" ELSE endpoint[1]
            local == \E i \in 1..Len(endpoint) :
                         endpoint[i] \in {"localhost", "127.0.0.1"}
        IN  /\ first = "https://" => insecure = <<FALSE>>
            /\ first = "http://" => insecure = <<TRUE>>
            /\ first \notin {"https://", "http://"} => insecure = <<local>>

C32_Witness ==
    /\ insecure = <<FALSE>>
    /\ endpoint = <<"https://", "localhost">>

\* C33: a span started through a Tracer that New returned for Disabled =
\* true is never exported, whatever New calls came before.
C33_DisabledTracerExportsNothing ==
    \A k \in 1..Len(tspans) :
        tracers[tspans[k].tracer].disabled => ~tspans[k].exported

\* C34: every span that has ended carries the status Ok or Error, never
\* Unset: request.cycle, http.get, http.transport, dns.resolve and
\* tcp.connect all had their status set before End, on every exit path.
C34_NoSpanEndsUnset ==
    \A i \in Spans :
        /\ spans[i].name \in {"request.cycle", "http.get", "http.transport",
                              "dns.resolve", "tcp.connect"}
        /\ spans[i].ends >= 1 => spans[i].status \in {"Ok", "Error"}

C34_Witness ==
    /\ pc = "select"
    /\ \E c \in Roots :
           /\ \A i \in TraceSpans(c) : spans[i].ends = 1
           /\ {spans[i].name : i \in TraceSpans(c)} =
                  {"request.cycle", "http.get", "http.transport",
                   "dns.resolve", "tcp.connect"}
           /\ \E i \in TraceSpans(c) :
                  spans[i].name = "dns.resolve" /\ spans[i].status = "Error"
           /\ \E i \in TraceSpans(c) :
                  spans[i].name = "tcp.connect" /\ spans[i].status = "Error"

\* C35: when the request.cycle span of a tick has ended Ok, the http.get,
\* http.transport and tcp.connect spans of that tick exist and have ended
\* Ok; only its dns.resolve span may have ended Error.
C35_OkRootHasOkChain ==
    \A c \in Roots :
        (spans[c].ends >= 1 /\ spans[c].status = "Ok") =>
            /\ \A n \in {"http.get", "http.transport", "tcp.connect"} :
                   \E i \in TraceSpans(c) : spans[i].name = n
            /\ \A i \in TraceSpans(c) :
                   /\ spans[i].ends >= 1
                   /\ spans[i].name # "dns.resolve" => spans[i].status = "Ok"

C35_Witness ==
    \E c \in Roots :
        /\ spans[c].ends = 1
        /\ spans[c].status = "Ok"
        /\ \E i \in TraceSpans(c) :
               spans[i].name = "dns.resolve" /\ spans[i].status = "Error"

\* C36: when Get returned a response and io.ReadAll failed, the tick ends
\* with the request.cycle span Error with one recorded error and none of the
\* duration/success/status attributes, one error record of the scheduler
\* carrying the ids of that span, the http.get span closed with the status
\* its response gave it, the body closed once, and the counter incremented.
C36_BodyReadFailure ==
    /\ (pc = "increment" /\ err = "read") =>
           LET c == cur.cycle
               g == cur.get
           IN  /\ outcome = "body_read_failure"
               /\ spans[c].ends = 1
               /\ spans[c].status = "Error"
               /\ spans[c].errors = 1
               /\ spans[c].attrs \cap {"request.cycle.duration_ms",
                                       "request.success", "http.status_code",
                                       "response.size", "request.error"} = {}
               /\ Cardinality(SchedulerLogs(c)) = 1
               /\ \A k \in SchedulerLogs(c) :
                      /\ logs[k].level = "error"
                      /\ logs[k].msg = "Failed to read response body"
                      /\ logs[k].trace_id = spans[c].trace
               /\ spans[g].ends = 1
               /\ spans[g].status = GetStatus(respStatus)
               /\ Cardinality(BodyCloseEvents(c)) = 1
               /\ requests = requestCount - 1
    /\ (pc \in {"select", "stopped"} /\ outcome = "body_read_failure") =>
           requests = requestCount

C36_Witness ==
    /\ pc = "select"
    /\ outcome = "body_read_failure"
    /\ requests = 2
    /\ \E c \in Roots :
           /\ spans[c].count = 2
           /\ spans[c].status = "Error"
           /\ \E g \in Children(c) : spans[g].status = "Ok"

\* C37: no step of a tick writes the readiness flag; main sets it to true
\* once, before the Status Server listens, and never again, so that /ready
\* answers 200 whenever the loop is running.
C37_TicksLeaveReadiness ==
    /\ pc # "start" =>
           /\ ready = 1
           /\ setReadyLog = <<TRUE>>
           /\ ReadyResponse(ready).code = 200
    /\ pc = "start" => (ready = 0 /\ srv = "new" /\ setReadyLog = << >>)
    /\ srv = "listening" => ready = 1

C37_Witness ==
    /\ pc = "select"
    /\ requests = 2
    /\ outcome \in FailureOutcomes
    /\ ready = 1
    /\ srv = "listening"

\* C38: under fair scheduling, once the context is cancelled the loop
\* reaches Stopped, and every tick that was started completes: its
\* request.cycle span ends and the counter reaches its number, a tick
\* started with an already cancelled context included.
C38_LoopStopsTicksComplete ==
    /\ cancelled ~> (pc = "stopped" /\ srv = "exited")
    /\ \A k \in 1..MaxTicks :
           (requestCount >= k) ~>
               (/\ requests >= k
                /\ \E c \in Roots : spans[c].count = k /\ spans[c].ends = 1)

C38_Witness ==
    /\ pc = "stopped"
    /\ cancelled
    /\ requestCount = 2
    /\ requests = 2
    /\ outcome = "transport_failure"
    /\ \A i \in Spans : spans[i].ends = 1
    /\ \E c \in Roots : spans[c].count = 2 /\ spans[c].errors = 1

\* C39: /metrics loads the counter and the readiness flag one after the
\* other: the counter it reports is the one the field held at the first
\* load, the flag the one held at the second; the counter never goes down,
\* so the counters of successive /metrics responses do not either. (That the
\* pair may be one the two fields never held together is C39_Witness.)
C39_MetricsTwoLoads ==
    [][/\ requests' >= requests
       /\ \A h \in 1..NumHandlers :
            /\ MetricsLoadRequests(h) =>
                   /\ hreq'[h] = requests
                   /\ hresp' = hresp
            /\ MetricsLoadReady(h) =>
                   /\ hresp'[h].path = "/metrics"
                   /\ hresp'[h].requests_total = hreq[h]
                   /\ hreq[h] <= requests
                   /\ hresp'[h].service_ready = ready
                   /\ hresp[h].path = "/metrics" =>
                          hresp'[h].requests_total >= hresp[h].requests_total]_vars

\* a /metrics response pairing a counter value and a flag value that the
\* two fields never held together: the flag was 0 when the counter was
\* loaded and was set, once, after the counter had moved on
C39_Witness ==
    \E h \in 1..NumHandlers :
        /\ hpc[h] = "idle"
        /\ hresp[h].path = "/metrics"
        /\ h \in seen.torn
        /\ setReadyLog = <<TRUE>>
        /\ hresp[h].service_ready = 1
        /\ hresp[h].requests_total < requests

====
